---------------------------- MODULE Spec2Model ----------------------------
(* Model of the lithograph web server (src/src/main.rs): the embedded       *)
(* content stores Posts and Static and the request handlers blog,           *)
(* get_blog and public.  Strings are sequences of one-character strings so  *)
(* that replace(), format!() and date parsing are computed, not assumed.    *)
EXTENDS Integers, Sequences, FiniteSets, TLC

(***************************************************************************)
(* Bounds                                                                  *)
(***************************************************************************)
\* largest number of documents embedded in Posts
MaxPosts == 3
\* number of requests that may be in flight at once
NumReq == 2

Requests == 1..NumReq

(***************************************************************************)
(* String helpers (Rust str operations used by the handlers)               *)
(***************************************************************************)
Drop(s, n) == SubSeq(s, n + 1, Len(s))

StartsWith(s, pat) == Len(s) >= Len(pat) /\ SubSeq(s, 1, Len(pat)) = pat

\* str::replace(pat, ""): every non-overlapping match, left to right, is removed
RECURSIVE ReplaceEmpty(_, _)
ReplaceEmpty(s, pat) ==
    IF Len(s) < Len(pat) \/ Len(pat) = 0 THEN s
    ELSE IF StartsWith(s, pat) THEN ReplaceEmpty(Drop(s, Len(pat)), pat)
    ELSE <<Head(s)>> \o ReplaceEmpty(Tail(s), pat)

DotMd == <<".", "m", "d">>

\* variant: the lookup made with the slug itself
FormatMd_bare(file) == file

\* format!("{}.md", file)
FormatMd(file) == file \o DotMd

(***************************************************************************)
(* chrono: NaiveDate::parse_from_str(s, "%Y-%m-%d") and NaiveDate::cmp     *)
(***************************************************************************)
Digits == <<"0", "1", "2", "3", "4", "5", "6", "7", "8", "9">>

IsDigit(c) == \E i \in 1..10 : Digits[i] = c

DigitVal(c) == (CHOOSE i \in 1..10 : Digits[i] = c) - 1

\* a numeric item: at least one and at most width digits, taken greedily
RECURSIVE ScanNumber(_, _, _, _)
ScanNumber(s, width, n, val) ==
    IF n < width /\ Len(s) > 0 /\ IsDigit(Head(s))
    THEN ScanNumber(Tail(s), width, n + 1, val * 10 + DigitVal(Head(s)))
    ELSE [ok |-> n >= 1, val |-> val, rest |-> s]

IsLeap(y) == (y % 4 = 0 /\ y % 100 # 0) \/ y % 400 = 0

DaysInMonth(y, m) ==
    IF m = 2 THEN (IF IsLeap(y) THEN 29 ELSE 28)
    ELSE IF m \in {4, 6, 9, 11} THEN 30 ELSE 31

NoDate == [ok |-> FALSE, y |-> 0, m |-> 0, d |-> 0]

ParseDate(s) ==
    LET Y == ScanNumber(s, 4, 0, 0) IN
    IF ~Y.ok \/ ~StartsWith(Y.rest, <<"-">>) THEN NoDate ELSE
    LET M == ScanNumber(Tail(Y.rest), 2, 0, 0) IN
    IF ~M.ok \/ ~StartsWith(M.rest, <<"-">>) THEN NoDate ELSE
    LET D == ScanNumber(Tail(M.rest), 2, 0, 0) IN
    IF ~D.ok \/ Len(D.rest) > 0 THEN NoDate
    ELSE IF M.val \in 1..12 /\ D.val >= 1 /\ D.val <= DaysInMonth(Y.val, M.val)
         THEN [ok |-> TRUE, y |-> Y.val, m |-> M.val, d |-> D.val]
         ELSE NoDate

\* the total order of NaiveDate
DateOrd(dt) == dt.y * 10000 + dt.m * 100 + dt.d

(***************************************************************************)
(* The embedded documents                                                  *)
(***************************************************************************)
Str(v) == [t |-> "String", v |-> v]
Arr(v) == [t |-> "Array", v |-> v]

Required == {"title", "tags", "date", "blurb"}

\* the files the posts/ folder may hold at build time
Catalog == <<
    [name |-> <<"a", ".", "m", "d">>,
     meta |-> [title |-> Str(<<"'", "A", "'">>),
               tags  |-> Arr(<<"ta">>),
               date  |-> Str(<<"2","0","2","1","-","0","1","-","0","1">>),
               blurb |-> Str(<<"\"", "a", "\"">>)],
     body |-> <<"#", "a">>],
    [name |-> <<"b", ".", "m", "d">>,
     meta |-> [title |-> Str(<<"B", "'", "s">>),
               tags  |-> Arr(<<"tb", "tb2">>),
               date  |-> Str(<<"2","0","2","2","-","0","6","-","1","5">>),
               blurb |-> Str(<<"b">>)],
     body |-> <<"#", "b">>],
    [name |-> <<"c", ".", "m", "d">>,
     meta |-> [title |-> Str(<<"C">>),
               tags  |-> Arr(<<>>),
               date  |-> Str(<<"2","0","2","0","-","0","3","-","0","3">>),
               blurb |-> Str(<<"c">>)],
     body |-> <<"#", "c">>],
    \* same calendar day as a.md, written without zero padding; the name holds
    \* ".md" before its final suffix
    [name |-> <<"a", ".", "m", "d", ".", "m", "d">>,
     meta |-> [title |-> Str(<<"D">>),
               tags  |-> Arr(<<"td">>),
               date  |-> Str(<<"2","0","2","1","-","1","-","0","1">>),
               blurb |-> Str(<<"d">>)],
     body |-> <<"#", "d">>],
    \* no tags field
    [name |-> <<"f", ".", "m", "d">>,
     meta |-> [title |-> Str(<<"F">>),
               date  |-> Str(<<"2","0","1","9","-","0","1","-","0","1">>),
               blurb |-> Str(<<"f">>)],
     body |-> <<"#", "f">>],
    \* 30 February
    [name |-> <<"g", ".", "m", "d">>,
     meta |-> [title |-> Str(<<"G">>),
               tags  |-> Arr(<<"tg">>),
               date  |-> Str(<<"2","0","2","1","-","0","2","-","3","0">>),
               blurb |-> Str(<<"g">>)],
     body |-> <<"#", "g">>],
    \* no title field
    [name |-> <<"h", ".", "m", "d">>,
     meta |-> [tags  |-> Arr(<<"th">>),
               date  |-> Str(<<"2","0","1","8","-","0","1","-","0","1">>),
               blurb |-> Str(<<"h">>)],
     body |-> <<"#", "h">>],
    \* no date field
    [name |-> <<"i", ".", "m", "d">>,
     meta |-> [title |-> Str(<<"I">>),
               tags  |-> Arr(<<"ti">>),
               blurb |-> Str(<<"i">>)],
     body |-> <<"#", "i">>],
    \* no blurb field
    [name |-> <<"j", ".", "m", "d">>,
     meta |-> [title |-> Str(<<"J">>),
               tags  |-> Arr(<<"tj">>),
               date  |-> Str(<<"2","0","1","7","-","0","1","-","0","1">>)],
     body |-> <<"#", "j">>]
>>

FileIds == 1..Len(Catalog)

\* the files the listing is explored over: a.md, b.md, c.md, a.md.md, f.md, g.md
ListedIds == {id \in FileIds : id <= 6}

\* every content store: up to MaxPosts distinct files of the catalog, listed in
\* any order; a store is the sequence of the files' catalog numbers
Stores ==
    LET Ix == UNION {[1..n -> ListedIds] : n \in 0..MaxPosts}
    IN  {f \in Ix : \A i, j \in DOMAIN f : f[i] = f[j] => i = j}

\* the stores the detail page is explored over: up to two files of the whole
\* catalog, in any order
ResolveStores ==
    LET Ix == UNION {[1..n -> FileIds] : n \in 0..2}
    IN  {f \in Ix : \A i, j \in DOMAIN f : f[i] = f[j] => i = j}

\* the slugs a client asks for
Slugs == {<<"a">>, <<"f">>}
AllSlugs == Slugs \cup {<<"h">>, <<"i">>, <<"j">>}

\* the paths a client asks for under /static/
Paths == {
    <<"a", "p", "p", ".", "c", "s", "s">>,
    <<"L", "I", "C", "E", "N", "S", "E">>,
    <<"d", "a", "t", "a", ".", "x", "y", "z">>,
    <<"i", "m", "g", "/", "l", "o", "g", "o", ".", "p", "n", "g">>,
    <<"v", "1", ".", "2", "/", "n", "o", "t", "e", "s">>
}

(***************************************************************************)
(* State                                                                   *)
(***************************************************************************)
VARIABLES
    Posts,      \* the embedded posts/ folder, in Posts::iter() order
    Static,     \* the paths embedded from public/
    pc,         \* pc[r]: where request r is
    arg,        \* arg[r]: the <file> parameter of the route
    iter,       \* iter[r]: position of blog's Posts::iter()
    post_list,  \* post_list[r]: the posts blog has collected
    resp,       \* resp[r]: what the handler returned
    calls       \* calls[r]: meta.parse() and format_html() calls made for r

vars == <<Posts, Static, pc, arg, iter, post_list, resp, calls>>

None == [some |-> FALSE]
Some(x) == [some |-> TRUE, v |-> x]

NoArg == <<>>
NoResp == [kind |-> "none"]
Panic == [kind |-> "Panic"]
NotFound == [kind |-> "NotFound"]
NoCalls == [parse |-> 0, render |-> 0]

(***************************************************************************)
(* Posts::get, MetaData::parse, comrak                                     *)
(***************************************************************************)
\* Posts::iter(): the file names, in the store's order
PostsIter(store) == [i \in DOMAIN store |-> Catalog[store[i]].name]

PostsGet(store, filename) ==
    IF \E i \in DOMAIN store : Catalog[store[i]].name = filename
    THEN Some(Catalog[store[CHOOSE i \in DOMAIN store :
                                   Catalog[store[i]].name = filename]])
    ELSE None

\* meta.parse(): fails unless every required field is there
MetaParse(d) ==
    IF Required \subseteq DOMAIN d.meta
    THEN [ok |-> TRUE, meta |-> d.meta, body |-> d.body]
    ELSE [ok |-> FALSE]

\* parse_document + format_html under the fixed options
Render(md) == [html |-> md]

ValueString(val) == IF val.t = "String" THEN val.v ELSE <<>>
ValueArray(val) == IF val.t = "Array" THEN val.v ELSE <<>>

(***************************************************************************)
(* blog: the closure passed to map, and the sort                           *)
(***************************************************************************)
MakeSlug(f) == ReplaceEmpty(f, DotMd)

ListTitle(parsed_meta) == ReplaceEmpty(ValueString(parsed_meta.title), <<"'">>)

MakePost(f, parsed_meta) ==
    [date  |-> ValueString(parsed_meta.date),
     title |-> ListTitle(parsed_meta),
     slug  |-> MakeSlug(f),
     blurb |-> Render(ReplaceEmpty(ValueString(parsed_meta.blurb), <<"\"">>)),
     tags  |-> ValueArray(parsed_meta.tags)]

\* the comparator unwraps both dates before it compares them
CmpPanics(a, b) == ~ParseDate(a.date).ok \/ ~ParseDate(b.date).ok

\* variant: the comparator with its operands the other way round
IsLess_ascending(a, b) == DateOrd(ParseDate(a.date)) < DateOrd(ParseDate(b.date))

\* variant: is_less that also holds of equal dates
IsLess_or_equal(a, b) == DateOrd(ParseDate(b.date)) <= DateOrd(ParseDate(a.date))

\* sort_by's is_less(a, b): the comparator date_b.cmp(&date_a) returns Less
IsLess(a, b) == DateOrd(ParseDate(b.date)) < DateOrd(ParseDate(a.date))

Sorted(v) == [ok |-> TRUE, v |-> v]
SortPanic == [ok |-> FALSE, v |-> <<>>]

\* variant: insert_head that overwrites the element it stops at
RECURSIVE Shift_overwrite(_, _)
Shift_overwrite(tmp, rest) ==
    IF rest = <<>> THEN Sorted(<<tmp>>)
    ELSE IF CmpPanics(Head(rest), tmp) THEN SortPanic
    ELSE IF IsLess(Head(rest), tmp)
         THEN LET r == Shift_overwrite(tmp, Tail(rest))
              IN  IF r.ok THEN Sorted(<<Head(rest)>> \o r.v) ELSE r
         ELSE Sorted(<<tmp, tmp>> \o Tail(rest))

\* insert_head: tmp moves right past every element that is_less than it
RECURSIVE Shift(_, _)
Shift(tmp, rest) ==
    IF rest = <<>> THEN Sorted(<<tmp>>)
    ELSE IF CmpPanics(Head(rest), tmp) THEN SortPanic
    ELSE IF IsLess(Head(rest), tmp)
         THEN LET r == Shift(tmp, Tail(rest))
              IN  IF r.ok THEN Sorted(<<Head(rest)>> \o r.v) ELSE r
         ELSE Sorted(<<tmp>> \o rest)

InsertHead(v) == IF Len(v) >= 2 THEN Shift(Head(v), Tail(v)) ELSE Sorted(v)

\* slice::sort_by on a short slice: insert_head on v[i..] for i = len-2 down to 0
RECURSIVE SortBy(_)
SortBy(v) ==
    IF Len(v) < 2 THEN Sorted(v)
    ELSE LET t == SortBy(Tail(v))
         IN  IF t.ok THEN InsertHead(<<Head(v)>> \o t.v) ELSE t

BlogTemplate(posts) == [kind |-> "BlogTemplate", posts |-> posts]

\* the handler as a function of the store: map, collect, sort_by
RECURSIVE Collect(_, _)
Collect(store, names) ==
    IF names = <<>> THEN Sorted(<<>>)
    ELSE LET parsed == MetaParse(PostsGet(store, Head(names)).v)
             rest == Collect(store, Tail(names))
         IN  IF parsed.ok /\ rest.ok
             THEN Sorted(<<MakePost(Head(names), parsed.meta)>> \o rest.v)
             ELSE SortPanic

BlogResponse(store) ==
    LET c == Collect(store, PostsIter(store))
        s == SortBy(c.v)
    IN  IF c.ok /\ s.ok THEN BlogTemplate(s.v) ELSE Panic

(***************************************************************************)
(* get_blog                                                                *)
(***************************************************************************)
DetailTitle(parsed_meta) == ValueString(parsed_meta.title)

PostTemplate(title, post) == [kind |-> "PostTemplate", title |-> title, post |-> post]

\* variant: the closure with only the title required
GetBlogHit_lenient(d) ==
    IF "title" \in DOMAIN d.meta
    THEN PostTemplate(DetailTitle(d.meta), Render(d.body))
    ELSE Panic

\* the closure run on a hit
GetBlogHit(d) ==
    LET parsed == MetaParse(d)
    IN  IF parsed.ok
        THEN PostTemplate(DetailTitle(parsed.meta), Render(parsed.body))
        ELSE Panic

GetBlogResponse(store, file) ==
    LET d == PostsGet(store, FormatMd(file))
    IN  IF d.some THEN GetBlogHit(d.v) ELSE NotFound

(***************************************************************************)
(* public                                                                  *)
(***************************************************************************)
RECURSIVE LastIndex(_, _)
LastIndex(s, c) ==
    IF s = <<>> THEN 0
    ELSE IF s[Len(s)] = c THEN Len(s)
    ELSE LastIndex(SubSeq(s, 1, Len(s) - 1), c)

\* Path::extension: what follows the last dot of the last component, if the
\* component has a dot that is not its first character
Extension(file) ==
    LET fname == Drop(file, LastIndex(file, "/"))
        k == LastIndex(fname, ".")
    IN  IF k <= 1 THEN None ELSE Some(Drop(fname, k))

\* ContentType::from_extension, for the extensions that occur
FromExtension(ext) ==
    IF ext = <<"c", "s", "s">> THEN Some("text/css")
    ELSE IF ext = <<"p", "n", "g">> THEN Some("image/png")
    ELSE IF ext = <<"j", "s">> THEN Some("application/javascript")
    ELSE None

BadRequest == [kind |-> "BadRequest"]

\* variant: the extension looked at before the bundle
PublicResponse_extension_first(bundle, file) ==
    LET ext == Extension(file)
    IN  IF ~ext.some THEN BadRequest
        ELSE LET content_type == FromExtension(ext.v)
             IN  IF ~content_type.some THEN BadRequest
                 ELSE IF file \notin bundle THEN NotFound
                 ELSE [kind |-> "Asset", content_type |-> content_type.v,
                       body |-> file]

PublicResponse(bundle, file) ==
    IF file \notin bundle THEN NotFound
    ELSE LET ext == Extension(file)
         IN  IF ~ext.some THEN BadRequest
             ELSE LET content_type == FromExtension(ext.v)
                  IN  IF ~content_type.some THEN BadRequest
                      ELSE [kind |-> "Asset", content_type |-> content_type.v,
                            body |-> file]

(***************************************************************************)
(* Initial states                                                          *)
(***************************************************************************)
InitReq ==
    /\ pc = [r \in Requests |-> "idle"]
    /\ arg = [r \in Requests |-> NoArg]
    /\ iter = [r \in Requests |-> 0]
    /\ post_list = [r \in Requests |-> <<>>]
    /\ resp = [r \in Requests |-> NoResp]
    /\ calls = [r \in Requests |-> NoCalls]

Init ==
    /\ Posts \in Stores
    /\ Static = {}
    /\ InitReq

InitResolve ==
    /\ Posts \in ResolveStores
    /\ Static = {}
    /\ InitReq

InitStatic ==
    /\ Posts = <<>>
    /\ Static \in SUBSET Paths
    /\ InitReq

(***************************************************************************)
(* GET /blog                                                               *)
(***************************************************************************)
BlogStart(r) ==
    /\ pc[r] = "idle"
    /\ pc' = [pc EXCEPT ![r] = "blog"]
    /\ iter' = [iter EXCEPT ![r] = 1]
    /\ UNCHANGED <<Posts, Static, arg, post_list, resp, calls>>

\* variant: post_list kept in one place for all requests
OwnList_shared(r) == 1

\* post_list is a local of the handler: each request has its own
OwnList(r) == r

\* one turn of the map closure
BlogMap(r) ==
    /\ pc[r] = "blog"
    /\ iter[r] <= Len(Posts)
    /\ LET f == PostsIter(Posts)[iter[r]]
           d == PostsGet(Posts, f)
           parsed == MetaParse(d.v)
       IN  IF parsed.ok
           THEN /\ post_list' = [post_list EXCEPT
                                   ![OwnList(r)] = Append(@, MakePost(f, parsed.meta))]
                /\ iter' = [iter EXCEPT ![r] = @ + 1]
                /\ calls' = [calls EXCEPT ![r].parse = @ + 1, ![r].render = @ + 1]
                /\ UNCHANGED <<pc, resp>>
           ELSE /\ pc' = [pc EXCEPT ![r] = "done"]
                /\ resp' = [resp EXCEPT ![r] = Panic]
                /\ calls' = [calls EXCEPT ![r].parse = @ + 1]
                /\ UNCHANGED <<iter, post_list>>
    /\ UNCHANGED <<Posts, Static, arg>>

\* collect() is complete: sort, and move post_list into the template
BlogSort(r) ==
    /\ pc[r] = "blog"
    /\ iter[r] > Len(Posts)
    /\ LET s == SortBy(post_list[OwnList(r)])
       IN  /\ resp' = [resp EXCEPT ![r] = IF s.ok THEN BlogTemplate(s.v) ELSE Panic]
           /\ post_list' = [post_list EXCEPT ![OwnList(r)] = <<>>]
    /\ pc' = [pc EXCEPT ![r] = "done"]
    /\ UNCHANGED <<Posts, Static, arg, iter, calls>>

(***************************************************************************)
(* GET /blog/<file>                                                        *)
(***************************************************************************)
GetBlogStart(r, file) ==
    /\ pc[r] = "idle"
    /\ pc' = [pc EXCEPT ![r] = "get_blog"]
    /\ arg' = [arg EXCEPT ![r] = file]
    /\ UNCHANGED <<Posts, Static, iter, post_list, resp, calls>>

GetBlog(r) ==
    /\ pc[r] = "get_blog"
    /\ LET d == PostsGet(Posts, FormatMd(arg[r]))
       IN  /\ resp' = [resp EXCEPT ![r] = GetBlogResponse(Posts, arg[r])]
           /\ calls' = [calls EXCEPT
                 ![r] = IF ~d.some THEN @
                        ELSE IF MetaParse(d.v).ok THEN [parse |-> 1, render |-> 1]
                        ELSE [parse |-> 1, render |-> 0]]
    /\ pc' = [pc EXCEPT ![r] = "done"]
    /\ UNCHANGED <<Posts, Static, arg, iter, post_list>>

(***************************************************************************)
(* GET /static/<file..>                                                    *)
(***************************************************************************)
PublicStart(r, file) ==
    /\ pc[r] = "idle"
    /\ pc' = [pc EXCEPT ![r] = "public"]
    /\ arg' = [arg EXCEPT ![r] = file]
    /\ UNCHANGED <<Posts, Static, iter, post_list, resp, calls>>

Public(r) ==
    /\ pc[r] = "public"
    /\ resp' = [resp EXCEPT ![r] = PublicResponse(Static, arg[r])]
    /\ pc' = [pc EXCEPT ![r] = "done"]
    /\ UNCHANGED <<Posts, Static, arg, iter, post_list, calls>>

(***************************************************************************)
(* Specifications                                                          *)
(***************************************************************************)
Next ==
    \E r \in Requests :
        \/ BlogStart(r)
        \/ BlogMap(r)
        \/ BlogSort(r)
        \/ \E file \in Slugs : GetBlogStart(r, file)
        \/ GetBlog(r)

Spec == Init /\ [][Next]_vars

NextResolve ==
    \E r \in Requests :
        \/ \E file \in AllSlugs : GetBlogStart(r, file)
        \/ GetBlog(r)

SpecResolve == InitResolve /\ [][NextResolve]_vars

NextStatic ==
    \E r \in Requests :
        \/ \E file \in Paths : PublicStart(r, file)
        \/ Public(r)

SpecStatic == InitStatic /\ [][NextStatic]_vars

(***************************************************************************)
(* What the claims speak of                                                *)
(***************************************************************************)
BlogDone(r) == pc[r] = "done" /\ iter[r] >= 1
GetBlogDone(r) == pc[r] = "done" /\ arg[r] \in AllSlugs
PublicDone(r) == pc[r] = "done" /\ arg[r] \in Paths

Listed(r) == BlogDone(r) /\ resp[r].kind = "BlogTemplate"

\* the calendar day of each catalog file, as yyyymmdd; 0 where the file has no
\* date or the date is no calendar day
CalendarDay == <<20210101, 20220615, 20200303, 20210101, 20190101, 0, 20180101, 0, 20170101>>

HasAllFields(id) ==
    /\ "title" \in DOMAIN Catalog[id].meta
    /\ "tags" \in DOMAIN Catalog[id].meta
    /\ "date" \in DOMAIN Catalog[id].meta
    /\ "blurb" \in DOMAIN Catalog[id].meta

WellFormed(id) == HasAllFields(id) /\ CalendarDay[id] # 0

AllWellFormed(store) == \A i \in DOMAIN store : WellFormed(store[i])

Unquoted(s) == SelectSeq(s, LAMBDA c : c # "'")

\* the catalog file a summary was made from (titles are unique in the catalog)
FileOf(p) ==
    CHOOSE id \in FileIds :
        "title" \in DOMAIN Catalog[id].meta /\ Unquoted(Catalog[id].meta.title.v) = p.title

DayOf(p) == CalendarDay[FileOf(p)]

PositionIn(store, id) == CHOOSE i \in DOMAIN store : store[i] = id

IdOf(name) == CHOOSE id \in FileIds : Catalog[id].name = name

IdA == IdOf(<<"a", ".", "m", "d">>)
IdB == IdOf(<<"b", ".", "m", "d">>)
IdC == IdOf(<<"c", ".", "m", "d">>)
IdAMdMd == IdOf(<<"a", ".", "m", "d", ".", "m", "d">>)

(***************************************************************************)
(* C1                                                                      *)
(***************************************************************************)
\* C1: over a store whose documents all have the four fields and a valid
\* date, the listing succeeds and is sorted by calendar day, latest first;
\* a.md, b.md, c.md alone are listed as b, a, c whatever the store's order.
C1_SortedByDateDescending ==
    \A r \in Requests :
        BlogDone(r) /\ AllWellFormed(Posts) =>
            /\ resp[r].kind = "BlogTemplate"
            /\ \A i \in 1..(Len(resp[r].posts) - 1) :
                   DayOf(resp[r].posts[i]) >= DayOf(resp[r].posts[i + 1])
            /\ {Posts[i] : i \in DOMAIN Posts} = {IdA, IdB, IdC} /\ Len(Posts) = 3 =>
                   [i \in 1..3 |-> FileOf(resp[r].posts[i])] = <<IdB, IdA, IdC>>

C1_Witness ==
    \E r \in Requests :
        /\ Listed(r)
        /\ Posts = <<IdC, IdA, IdB>>
        /\ [i \in 1..3 |-> FileOf(resp[r].posts[i])] = <<IdB, IdA, IdC>>

(***************************************************************************)
(* C2                                                                      *)
(***************************************************************************)
\* C2: the listing returns post summaries exactly when every document has
\* the four fields and a valid date; otherwise it fails, at every store size.
C2_AllOrNothing ==
    \A r \in Requests :
        BlogDone(r) =>
            IF AllWellFormed(Posts)
            THEN resp[r].kind = "BlogTemplate"
            ELSE resp[r] = Panic

(***************************************************************************)
(* C3                                                                      *)
(***************************************************************************)
\* C3: get_blog answers NotFound exactly when no embedded file is named
\* slug + ".md", and then it has parsed and rendered nothing.
C3_NotFoundIffAbsent ==
    \A r \in Requests :
        GetBlogDone(r) =>
            /\ resp[r] = NotFound <=>
                   ~\E i \in DOMAIN Posts : Catalog[Posts[i]].name = arg[r] \o <<".", "m", "d">>
            /\ resp[r] = NotFound => calls[r].parse = 0 /\ calls[r].render = 0

C3_Witness ==
    /\ \E r \in Requests : GetBlogDone(r) /\ resp[r] = NotFound /\ Len(Posts) > 0
    /\ \E r \in Requests : GetBlogDone(r) /\ resp[r] # NotFound

(***************************************************************************)
(* C4                                                                      *)
(***************************************************************************)
\* C4: each listed slug is its file's name less the final ".md", so that
\* slug + ".md" is that name and get_blog(slug) serves that same file.
C4_SlugRoundTrip ==
    \A r \in Requests :
        Listed(r) =>
            \A i \in DOMAIN resp[r].posts :
                LET p == resp[r].posts[i]
                    d == Catalog[FileOf(p)]
                IN  /\ p.slug \o <<".", "m", "d">> = d.name
                    /\ GetBlogResponse(Posts, p.slug) = GetBlogHit(d)

(***************************************************************************)
(* C5                                                                      *)
(***************************************************************************)
\* C5: the title get_blog serves is the front-matter title without its
\* single quotes, the same title the listing shows for that document.
C5_DetailTitleUnquoted ==
    \A r \in Requests :
        GetBlogDone(r) /\ resp[r].kind = "PostTemplate" =>
            \A i \in DOMAIN Posts :
                Catalog[Posts[i]].name = arg[r] \o <<".", "m", "d">> =>
                    /\ resp[r].title = Unquoted(Catalog[Posts[i]].meta.title.v)
                    /\ resp[r].title = ListTitle(Catalog[Posts[i]].meta)

(***************************************************************************)
(* C6                                                                      *)
(***************************************************************************)
\* C6: for an embedded document that lacks one of title, tags, date, blurb
\* get_blog panics (no page, no NotFound); for one with all four it serves
\* the rendering of the body, not of the blurb.
C6_DetailNeedsAllFields ==
    \A r \in Requests :
        GetBlogDone(r) =>
            \A i \in DOMAIN Posts :
                Catalog[Posts[i]].name = arg[r] \o <<".", "m", "d">> =>
                    IF HasAllFields(Posts[i])
                    THEN /\ resp[r].kind = "PostTemplate"
                         /\ resp[r].post = [html |-> Catalog[Posts[i]].body]
                         /\ resp[r].post # [html |-> Catalog[Posts[i]].meta.blurb.v]
                    ELSE resp[r] = Panic

C6_Witness ==
    /\ \E r \in Requests : GetBlogDone(r) /\ resp[r] = Panic /\ arg[r] = <<"i">>
    /\ \E r \in Requests : GetBlogDone(r) /\ resp[r].kind = "PostTemplate"

(***************************************************************************)
(* C7                                                                      *)
(***************************************************************************)
SummaryOf(id, p) ==
    LET d == Catalog[id]
    IN  /\ p.slug = MakeSlug(d.name)
        /\ p.date = d.meta.date.v
        /\ p.tags = d.meta.tags.v
        /\ p.blurb = [html |-> SelectSeq(d.meta.blurb.v, LAMBDA c : c # "\"")]

\* C7: a listing holds one summary per embedded document: some one-to-one
\* pairing of its entries with the store's files has every entry's slug,
\* date, tags and blurb taken from its file.
C7_OneSummaryPerDocument ==
    \A r \in Requests :
        Listed(r) =>
            /\ Len(resp[r].posts) = Len(Posts)
            /\ \E pi \in [DOMAIN Posts -> DOMAIN Posts] :
                   /\ \A i, j \in DOMAIN Posts : pi[i] = pi[j] => i = j
                   /\ \A i \in DOMAIN Posts : SummaryOf(Posts[pi[i]], resp[r].posts[i])

C7_Witness ==
    \E r \in Requests :
        /\ Listed(r)
        /\ Len(Posts) = MaxPosts
        /\ resp[r].posts # Collect(Posts, PostsIter(Posts)).v

(***************************************************************************)
(* C8                                                                      *)
(***************************************************************************)
\* the content type each path of Paths should be served with, if any
TypeOfPath(file) ==
    IF file = <<"a", "p", "p", ".", "c", "s", "s">> THEN "text/css"
    ELSE IF file = <<"i", "m", "g", "/", "l", "o", "g", "o", ".", "p", "n", "g">>
         THEN "image/png"
    ELSE "none"

\* C8 as stated: a path without a recognized extension gets 400 whether or
\* not the asset is embedded; a path with one gets 404 when the asset is
\* absent and the asset with its content type when present.
C8_BadExtensionAlways400 ==
    \A r \in Requests :
        PublicDone(r) =>
            IF TypeOfPath(arg[r]) = "none" THEN resp[r] = BadRequest
            ELSE IF arg[r] \notin Static THEN resp[r] = NotFound
            ELSE resp[r] = [kind |-> "Asset", content_type |-> TypeOfPath(arg[r]),
                            body |-> arg[r]]

\* C8 amended: an absent asset gets 404 whatever its extension; an embedded
\* asset gets 400 when its path has no recognized extension, and otherwise
\* its bytes with the content type of the extension.
C8_AbsentFirst ==
    \A r \in Requests :
        PublicDone(r) =>
            IF arg[r] \notin Static THEN resp[r] = NotFound
            ELSE IF TypeOfPath(arg[r]) = "none" THEN resp[r] = BadRequest
            ELSE resp[r] = [kind |-> "Asset", content_type |-> TypeOfPath(arg[r]),
                            body |-> arg[r]]

C8_Witness ==
    /\ \E r \in Requests :
           PublicDone(r) /\ resp[r] = NotFound /\ TypeOfPath(arg[r]) = "none"
    /\ \E r \in Requests : PublicDone(r) /\ resp[r] = BadRequest

(***************************************************************************)
(* C9                                                                      *)
(***************************************************************************)
\* what request r returns when no other request runs
Alone(r) ==
    IF iter[r] >= 1 THEN BlogResponse(Posts) ELSE GetBlogResponse(Posts, arg[r])

\* C9: no step of any request changes the content store, and under every
\* interleaving a finished request has returned what it returns when run
\* alone, so equal requests have equal results.
C9_NoSharedState ==
    /\ [][Posts' = Posts]_vars
    /\ [](\A r \in Requests : pc[r] = "done" => resp[r] = Alone(r))
    /\ [](\A r, q \in Requests :
              /\ pc[r] = "done" /\ pc[q] = "done"
              /\ iter[r] = iter[q] /\ arg[r] = arg[q]
              => resp[r] = resp[q])

\* a listing has finished while another request was half way through the store
C9_Witness ==
    \E r, q \in Requests :
        /\ r # q
        /\ Listed(r)
        /\ Len(resp[r].posts) >= 2
        /\ pc[q] = "blog" /\ iter[q] = 2

(***************************************************************************)
(* C10                                                                     *)
(***************************************************************************)
\* C10: two listed documents of the same calendar day keep the order in
\* which Posts::iter() yields them.
C10_StableSort ==
    \A r \in Requests :
        Listed(r) =>
            \A i, j \in DOMAIN resp[r].posts :
                i < j /\ DayOf(resp[r].posts[i]) = DayOf(resp[r].posts[j]) =>
                    PositionIn(Posts, FileOf(resp[r].posts[i]))
                        < PositionIn(Posts, FileOf(resp[r].posts[j]))

C10_Witness ==
    \E r \in Requests :
        /\ Listed(r)
        /\ Posts = <<IdAMdMd, IdB, IdA>>
        /\ [i \in 1..3 |-> FileOf(resp[r].posts[i])] = <<IdB, IdAMdMd, IdA>>

=============================================================================
